---- MODULE Spec2Model ----
(***************************************************************************)
(* The user list view (UserList.vue, src/unnamed/part_000): the paginated  *)
(* list, its selection, the deletion poller and the delete actions, as a   *)
(* state machine.  One action is one handler run to its next await (the    *)
(* view is single threaded: handlers interleave only at network calls and  *)
(* timer callbacks).  The remote API is the environment: it holds the      *)
(* collection of users and answers, or fails, every request.               *)
(***************************************************************************)
EXTENDS Naturals, Sequences, FiniteSets, Bags

\* ------------------------------------------------------------- bounds
\* list requests that may be in flight at once
MaxFetches == 2
\* removal requests that may be in flight at once
MaxDeletes == 2
\* interval handles that may be live at once
MaxTimers == 2
\* highest page number the pagination control offers
MaxPage == 2
\* users the server holds at the start
MaxUsers == 2
\* users the server holds at the start of the bulk delete scenario (SpecBulk)
BulkUsers == 3
\* the smallest page size offered; the view offers 20, 30, 50 and 100, scaled
\* here so that a page boundary falls inside a collection of MaxUsers users
SmallSize == 1

\* ------------------------------------------------------------- the users
\* metadata.name of the users the server may hold, in the server's order
AllNames == <<"admin", "bob", "carol", "dave", "erin">>
NameOrder ==
  SubSeq(AllNames, 1, IF MaxUsers < BulkUsers THEN BulkUsers ELSE MaxUsers)
Names == {NameOrder[i] : i \in 1..Len(NameOrder)}
\* the first k of them
FirstNames(k) == {NameOrder[i] : i \in 1..k}
\* userStore.currentUser.metadata.name
CurrentUser == "admin"
\* selectedUser.value === undefined
NoUser == "none"
\* refreshInterval.value holds no live handle: it is undefined, or a handle that
\* clearInterval has cancelled (the code only ever passes it to clearInterval, which
\* ignores both, and handles are not reused)
NoHandle == 0
\* the interval handles setInterval may return
Handles == 1..MaxTimers
\* :size-options of VPagination
SizeOptions == {SmallSize, SmallSize + 1}
Pages == 1..MaxPage
\* what is typed into the search box: nothing, or a keyword
Keywords == {"", "bo"}

Range(s) == {s[i] : i \in 1..Len(s)}
Min(S) == CHOOSE x \in S : \A y \in S : x <= y

VARIABLES
  phase,              \* "setup", "mounted", "unmounted": the component's lifecycle
  users,              \* users.value: the stored Page
  loading,            \* loading.value
  checkedAll,         \* checkedAll.value
  selectedUserNames,  \* selectedUserNames.value, an array of names
  selectedUser,       \* selectedUser.value, by name
  refreshInterval,    \* refreshInterval.value: the last handle stored
  timers,             \* the interval handles that are live (the browser's timer table)
  fuse,               \* the item sequence the Fuse index was built from
  hasFuse,            \* fuse !== undefined
  keyword,            \* keyword.value
  editingModal, passwordChangeModal, grantPermissionModal,
  dialog,             \* the open Dialog.warning, if any
  fetches,            \* list requests in flight
  deletes,            \* removal requests in flight
  batchLeft,          \* names the Promise.all of a confirmed bulk delete still awaits
  batchActive,        \* a bulk delete's Promise.all is pending
  srv,                \* the server's collection: name -> "live", "deleting", "gone"
  solo,               \* history: the fetch in flight alone, if one is
  latest,             \* history: the pagination change no user event has followed
  ev                  \* history: the step just taken

vars == <<phase, users, loading, checkedAll, selectedUserNames, selectedUser,
          refreshInterval, timers, fuse, hasFuse, keyword, editingModal,
          passwordChangeModal, grantPermissionModal, dialog, fetches, deletes,
          batchLeft, batchActive, srv, solo, latest, ev>>

\* ------------------------------------------------------------- the server
\* a User as the list shows it: its name and whether metadata.deletionTimestamp is set
UserOf(s, n) == [name |-> n, deletionTimestamp |-> (s[n] = "deleting")]

\* the names the server still holds, in its order
Existing(s) == SelectSeq(NameOrder, LAMBDA n : s[n] # "gone")

\* listv1alpha1User({page, size}): one page of the server's collection
ListUsers(s, page, size) ==
  LET all == Existing(s)
      lo  == (page - 1) * size + 1
      hi  == IF page * size < Len(all) THEN page * size ELSE Len(all)
  IN  [page  |-> page,
       size  |-> size,
       total |-> Len(all),
       items |-> IF lo > hi THEN <<>>
                 ELSE [i \in 1..(hi - lo + 1) |-> UserOf(s, all[lo + i - 1])]]

\* deletev1alpha1User({name}) as the server applies it: the user is marked for
\* deletion and purged later
MarkDeleted(s, n) == [s EXCEPT ![n] = IF @ = "live" THEN "deleting" ELSE @]

\* ------------------------------------------------------------- helpers of the view
ItemNames(items) == [i \in 1..Len(items) |-> items[i].name]

\* users.value.items.filter((user) => !!user.metadata.deletionTimestamp)
DeletedUsers(items) == SelectSeq(items, LAMBDA u : u.deletionTimestamp)

\* if (!options?.mute) loading.value = true
LoadingAtStart(mute, cur) == IF ~mute THEN TRUE ELSE cur

\* finally { selectedUser.value = undefined; loading.value = false }, given
\* whether the request succeeded and the value before
FinallySelectedUser(ok, cur) == NoUser
\* (the indicator cleared at the end of the try block instead)
FinallyLoading_onSuccessOnly(ok, cur) == IF ok THEN FALSE ELSE cur
FinallyLoading(ok, cur) == FALSE

\* catch (e) { console.error(...) }: what escapes handleFetchUsers on a failure
FetchEscapes == {}

\* selectedUserNames.value.filter((name) => name != userStore.currentUser?.metadata.name)
\* (the filter left out)
UserNamesToDelete_all(sel) == sel
UserNamesToDelete(sel) == SelectSeq(sel, LAMBDA name : name # CurrentUser)

\* Promise.all(...) is fulfilled once none of its requests is left pending
\* (resuming at the first fulfilment instead)
AllFulfilled_first(left) == TRUE
AllFulfilled(left) == left = {}

\* new Fuse(data.items, ...): the index holds the items it was built from
\* (an index that leaves out the users marked for deletion)
NewFuse_live(items) == SelectSeq(items, LAMBDA u : ~u.deletionTimestamp)
NewFuse(items) == items

\* whether fuse.search(k) finds a user by the keys of the index; of the names
\* here the keyword "bo" is found in bob's alone
FuseMatches(k, n) == k = "bo" /\ n = "bob"

\* fuse.search(keyword.value).map((item) => item.item): the matching items of
\* the index (Fuse orders them by score; one keyword with at most one match has
\* one order)
FuseSearch(index, k) == SelectSeq(index, LAMBDA u : FuseMatches(k, u.name))

\* searchResults: if (!fuse || !keyword.value) return users.value.items
\* (the test on the keyword left out)
SearchResults_noKeywordTest(has, index, k, items) ==
  IF ~has THEN items ELSE FuseSearch(index, k)
SearchResults(has, index, k, items) ==
  IF ~has \/ k = "" THEN items ELSE FuseSearch(index, k)

\* users.value.page = page; users.value.size = size
\* (the page left as it was)
Paginated_sizeOnly(u, page, size) == [u EXCEPT !.size = size]
Paginated(u, page, size) == [u EXCEPT !.page = page, !.size = size]

\* handleCheckAllChange: the selection after the header checkbox changed to
\* checked, over the items of the stored Page
\* (unticking leaving the selection alone)
CheckAllNames_keep(checked, items, sel) ==
  IF checked THEN ItemNames(items) ELSE sel
CheckAllNames(checked, items, sel) ==
  IF checked THEN ItemNames(items) ELSE <<>>

\* watch(selectedUserNames, ...): the value checkedAll gets when the array is replaced
WatchSelected(newValue, items) == Len(newValue) = Len(items)

\* v-model="selectedUserNames" on a row's checkbox: a new array with the name
\* appended, or with it filtered out
ToggleName(sel, n) ==
  IF n \in Range(sel) THEN SelectSeq(sel, LAMBDA m : m # n) ELSE Append(sel, n)

\* a handle setInterval can return
FreeHandles == Handles \ timers

\* history, the step just taken: the handler or callback that ran, whether it was
\* a muted fetch, and the handlers an error escaped from in this step; then the
\* Toast it showed, the page and size a pagination event carried, and the names
\* whose removal the fetch that finished in this step followed
Event(op, mute, escaped) ==
  [op |-> op, mute |-> mute, escaped |-> escaped,
   toast |-> "none", page |-> 0, size |-> 0, del |-> {}]
NoEvent == Event("init", FALSE, {})

\* history, a fetch that no other fetch overlaps: page and size stored when its
\* operation began
NoSolo == [on |-> FALSE, page |-> 0, size |-> 0]

\* history, the page and size of the pagination change that no user event and
\* no failed fetch has followed
NoLatest == [on |-> FALSE, page |-> 0, size |-> 0]

EmptyPage == [page |-> 1, size |-> SmallSize, total |-> 0, items |-> <<>>]

Init ==
  /\ phase = "setup"
  /\ users = EmptyPage
  /\ loading = FALSE
  /\ checkedAll = FALSE
  /\ selectedUserNames = <<>>
  /\ selectedUser = NoUser
  /\ refreshInterval = NoHandle
  /\ timers = {}
  /\ fuse = <<>>
  /\ hasFuse = FALSE
  /\ keyword = ""
  /\ editingModal = FALSE
  /\ passwordChangeModal = FALSE
  /\ grantPermissionModal = FALSE
  /\ dialog = [kind |-> "none", user |-> NoUser]
  /\ fetches = EmptyBag
  /\ deletes = {}
  /\ batchLeft = {}
  /\ batchActive = FALSE
  /\ srv = [n \in Names |->
              IF n \in FirstNames(MaxUsers) THEN "live" ELSE "gone"]
  /\ solo = NoSolo
  /\ latest = NoLatest
  /\ ev = NoEvent

\* ------------------------------------------------------------- handleFetchUsers
\* handleFetchUsers up to its await: cancel the stored interval, raise the loading
\* indicator unless muted, send the list request with the stored page and size.
\* u is users.value at the call, after is what runs when the returned promise
\* settles, del (history) the selected names whose removal the fetch follows.
StartFetch(mute, after, del, u) ==
  /\ BagCardinality(fetches) < MaxFetches
  /\ timers' = timers \ {refreshInterval}
  /\ refreshInterval' = NoHandle
  /\ loading' = LoadingAtStart(mute, loading)
  /\ fetches' = fetches (+) SetToBag({[mute |-> mute, page |-> u.page,
                                       size |-> u.size, after |-> after,
                                       del |-> del]})
  /\ solo' = IF fetches = EmptyBag
             THEN [on |-> TRUE, page |-> users.page, size |-> users.size]
             ELSE NoSolo

\* a handler's branch that does not call handleFetchUsers
NoFetch == UNCHANGED <<timers, refreshInterval, loading, fetches, solo>>

\* what the awaiting caller does once handleFetchUsers has returned: the confirm
\* handler of the bulk delete empties the selection in place and reports success
AfterFetch(f) ==
  IF f.after = "batch"
  THEN /\ selectedUserNames' = <<>>
       /\ batchActive' = FALSE
  ELSE UNCHANGED <<selectedUserNames, batchActive>>

\* Toast.success of the bulk delete's confirm handler, after its fetch
AfterFetchToast(f) == IF f.after = "batch" THEN "success" ELSE "none"

\* the list request of f succeeds: the rest of the try block, then finally
FetchOk(f) ==
  LET data == ListUsers(srv, f.page, f.size)
      arm  == Len(DeletedUsers(data.items)) > 0
  IN  /\ BagIn(f, fetches)
      /\ arm => FreeHandles # {}
      /\ fetches' = fetches (-) SetToBag({f})
      /\ users' = data
      /\ fuse' = NewFuse(data.items)
      /\ hasFuse' = TRUE
      /\ IF arm
         THEN /\ refreshInterval' = Min(FreeHandles)
              /\ timers' = timers \cup {Min(FreeHandles)}
         ELSE UNCHANGED <<refreshInterval, timers>>
      /\ selectedUser' = FinallySelectedUser(TRUE, selectedUser)
      /\ loading' = FinallyLoading(TRUE, loading)
      /\ AfterFetch(f)
      /\ ev' = [Event("FetchOk", f.mute, {})
                  EXCEPT !.toast = AfterFetchToast(f), !.del = f.del]
      /\ UNCHANGED <<phase, checkedAll, keyword, editingModal,
                     passwordChangeModal, grantPermissionModal, dialog,
                     deletes, batchLeft, srv, solo, latest>>

\* the list request of f fails: catch, then finally
FetchFail(f) ==
  /\ BagIn(f, fetches)
  /\ fetches' = fetches (-) SetToBag({f})
  /\ selectedUser' = FinallySelectedUser(FALSE, selectedUser)
  /\ loading' = FinallyLoading(FALSE, loading)
  /\ AfterFetch(f)
  /\ ev' = [Event("FetchFail", f.mute, FetchEscapes)
              EXCEPT !.toast = AfterFetchToast(f), !.del = f.del]
  /\ latest' = NoLatest
  /\ UNCHANGED <<phase, users, checkedAll, refreshInterval, timers, fuse,
                 hasFuse, keyword, editingModal, passwordChangeModal,
                 grantPermissionModal, dialog, deletes, batchLeft, srv, solo>>

\* setInterval's callback: handleFetchUsers({ mute: true })
TimerTick(h) ==
  /\ h \in timers
  /\ StartFetch(TRUE, "none", {}, users)
  /\ ev' = Event("TimerTick", TRUE, {})
  /\ UNCHANGED <<phase, users, checkedAll, selectedUserNames, selectedUser,
                 fuse, hasFuse, keyword, editingModal, passwordChangeModal,
                 grantPermissionModal, dialog, deletes, batchLeft,
                 batchActive, srv, latest>>

\* ------------------------------------------------------------- lifecycle
\* both onMounted hooks: the first fetch, and the creation modal when the route
\* query says action=create
OnMounted(action) ==
  /\ phase = "setup"
  /\ phase' = "mounted"
  /\ StartFetch(FALSE, "none", {}, users)
  /\ editingModal' = IF action = "create" THEN TRUE ELSE editingModal
  /\ ev' = Event("OnMounted", FALSE, {})
  /\ UNCHANGED <<users, checkedAll, selectedUserNames, selectedUser, fuse,
                 hasFuse, keyword, passwordChangeModal, grantPermissionModal,
                 dialog, deletes, batchLeft, batchActive, srv, latest>>

\* onUnmounted: clearInterval(refreshInterval.value)
OnUnmounted ==
  /\ phase = "mounted"
  /\ phase' = "unmounted"
  /\ timers' = timers \ {refreshInterval}
  /\ refreshInterval' = NoHandle
  /\ ev' = Event("OnUnmounted", FALSE, {})
  /\ latest' = NoLatest
  /\ UNCHANGED <<users, loading, checkedAll, selectedUserNames, selectedUser,
                 fuse, hasFuse, keyword, editingModal, passwordChangeModal,
                 grantPermissionModal, dialog, fetches, deletes, batchLeft,
                 batchActive, srv, solo>>

\* the user can act on the page: it is mounted, no modal or dialog covers it, and
\* the user lets a confirmed delete settle before the next click
Idle ==
  /\ phase = "mounted"
  /\ ~editingModal /\ ~passwordChangeModal /\ ~grantPermissionModal
  /\ dialog.kind = "none"
  /\ deletes = {} /\ ~batchActive

\* ------------------------------------------------------------- pagination
\* handlePaginationChange({page, size}): store page and size, then fetch.
\* VPagination offers the first page and the pages that users.total fills.
HandlePaginationChange(page, size) ==
  /\ Idle
  /\ page = 1 \/ (page - 1) * size < users.total
  /\ users' = Paginated(users, page, size)
  /\ StartFetch(FALSE, "none", {}, users')
  /\ latest' = [on |-> TRUE, page |-> page, size |-> size]
  /\ ev' = [Event("HandlePaginationChange", FALSE, {})
              EXCEPT !.page = page, !.size = size]
  /\ UNCHANGED <<phase, checkedAll, selectedUserNames, selectedUser, fuse,
                 hasFuse, keyword, editingModal, passwordChangeModal,
                 grantPermissionModal, dialog, deletes, batchLeft,
                 batchActive, srv>>

\* ------------------------------------------------------------- selection
\* the rows are those of searchResults, rendered only while the loading
\* indicator is down (v-if="loading")
RowNames ==
  IF loading THEN {}
  ELSE Range(ItemNames(SearchResults(hasFuse, fuse, keyword, users.items)))

\* v-model="keyword" on the search box, which is rendered while nothing is
\* selected
TypeKeyword(k) ==
  /\ Idle
  /\ Len(selectedUserNames) = 0
  /\ k # keyword
  /\ keyword' = k
  /\ latest' = NoLatest
  /\ ev' = Event("TypeKeyword", FALSE, {})
  /\ UNCHANGED <<phase, users, loading, checkedAll, selectedUserNames,
                 selectedUser, refreshInterval, timers, fuse, hasFuse,
                 editingModal, passwordChangeModal, grantPermissionModal,
                 dialog, fetches, deletes, batchLeft, batchActive, srv, solo>>

\* a row's checkbox (v-model="selectedUserNames"): the array is replaced, so the
\* watcher runs
ToggleRow(n) ==
  /\ Idle
  /\ n \in RowNames
  /\ selectedUserNames' = ToggleName(selectedUserNames, n)
  /\ checkedAll' = WatchSelected(selectedUserNames', users.items)
  /\ ev' = Event("ToggleRow", FALSE, {})
  /\ latest' = NoLatest
  /\ UNCHANGED <<phase, users, loading, selectedUser, refreshInterval, timers,
                 fuse, hasFuse, keyword, editingModal, passwordChangeModal,
                 grantPermissionModal, dialog, fetches, deletes, batchLeft,
                 batchActive, srv, solo>>

\* the header checkbox: v-model="checkedAll" stores the new tick, then
\* handleCheckAllChange runs; ticking replaces the array (the watcher runs),
\* unticking truncates it in place (the watcher does not)
HandleCheckAllChange(checked) ==
  /\ Idle
  /\ checked = ~checkedAll
  /\ selectedUserNames' = CheckAllNames(checked, users.items, selectedUserNames)
  /\ checkedAll' = IF checked
                   THEN WatchSelected(selectedUserNames', users.items)
                   ELSE checked
  /\ ev' = Event("HandleCheckAllChange", FALSE, {})
  /\ latest' = NoLatest
  /\ UNCHANGED <<phase, users, loading, selectedUser, refreshInterval, timers,
                 fuse, hasFuse, keyword, editingModal, passwordChangeModal,
                 grantPermissionModal, dialog, fetches, deletes, batchLeft,
                 batchActive, srv, solo>>

\* ------------------------------------------------------------- modals
\* handleOpenCreateModal, handleOpenPasswordChangeModal, handleOpenGrantPermissionModal
\* (the last is not offered on the current user's own row), and the "add user"
\* button, which shows the editing modal without an active user
OpenModal(which, n) ==
  /\ Idle
  /\ \/ n \in RowNames /\ (which = "grant" => n # CurrentUser)
     \/ n = NoUser /\ which = "editing"
  /\ selectedUser' = IF n = NoUser THEN selectedUser ELSE n
  /\ editingModal' = (which = "editing")
  /\ passwordChangeModal' = (which = "password")
  /\ grantPermissionModal' = (which = "grant")
  /\ ev' = Event("OpenModal", FALSE, {})
  /\ latest' = NoLatest
  /\ UNCHANGED <<phase, users, loading, checkedAll, selectedUserNames,
                 refreshInterval, timers, fuse, hasFuse, keyword, dialog,
                 fetches, deletes, batchLeft, batchActive, srv, solo>>

\* a modal is closed: its visible flag drops and @close runs handleFetchUsers
\* (onEditingModalClose for the editing modal)
CloseModal ==
  /\ phase = "mounted"
  /\ editingModal \/ passwordChangeModal \/ grantPermissionModal
  /\ editingModal' = FALSE
  /\ passwordChangeModal' = FALSE
  /\ grantPermissionModal' = FALSE
  /\ StartFetch(FALSE, "none", {}, users)
  /\ ev' = Event("CloseModal", FALSE, {})
  /\ latest' = NoLatest
  /\ UNCHANGED <<phase, users, checkedAll, selectedUserNames, selectedUser,
                 fuse, hasFuse, keyword, dialog, deletes, batchLeft,
                 batchActive, srv>>

\* ------------------------------------------------------------- delete
\* handleDelete(user): the confirmation dialog of a row's delete button, which is
\* not offered on the current user's own row
HandleDelete(n) ==
  /\ Idle
  /\ n \in RowNames
  /\ n # CurrentUser
  /\ dialog' = [kind |-> "one", user |-> n]
  /\ ev' = Event("HandleDelete", FALSE, {})
  /\ latest' = NoLatest
  /\ UNCHANGED <<phase, users, loading, checkedAll, selectedUserNames,
                 selectedUser, refreshInterval, timers, fuse, hasFuse,
                 keyword, editingModal, passwordChangeModal,
                 grantPermissionModal, fetches, deletes, batchLeft,
                 batchActive, srv, solo>>

\* handleDeleteInBatch: the confirmation dialog of the bulk delete button, which
\* is rendered while something is selected
HandleDeleteInBatch ==
  /\ Idle
  /\ Len(selectedUserNames) > 0
  /\ dialog' = [kind |-> "batch", user |-> NoUser]
  /\ ev' = Event("HandleDeleteInBatch", FALSE, {})
  /\ latest' = NoLatest
  /\ UNCHANGED <<phase, users, loading, checkedAll, selectedUserNames,
                 selectedUser, refreshInterval, timers, fuse, hasFuse,
                 keyword, editingModal, passwordChangeModal,
                 grantPermissionModal, fetches, deletes, batchLeft,
                 batchActive, srv, solo>>

\* the dialog is dismissed: no handler runs
DialogCancel ==
  /\ phase = "mounted"
  /\ dialog.kind # "none"
  /\ dialog' = [kind |-> "none", user |-> NoUser]
  /\ ev' = Event("DialogCancel", FALSE, {})
  /\ latest' = NoLatest
  /\ UNCHANGED <<phase, users, loading, checkedAll, selectedUserNames,
                 selectedUser, refreshInterval, timers, fuse, hasFuse,
                 keyword, editingModal, passwordChangeModal,
                 grantPermissionModal, fetches, deletes, batchLeft,
                 batchActive, srv, solo>>

\* onConfirm of handleDelete, up to its await: the removal request is sent
ConfirmDelete ==
  /\ phase = "mounted"
  /\ dialog.kind = "one"
  /\ Cardinality(deletes) < MaxDeletes
  /\ [name |-> dialog.user, kind |-> "one"] \notin deletes
  /\ deletes' = deletes \cup {[name |-> dialog.user, kind |-> "one"]}
  /\ dialog' = [kind |-> "none", user |-> NoUser]
  /\ ev' = Event("ConfirmDelete", FALSE, {})
  /\ latest' = NoLatest
  /\ UNCHANGED <<phase, users, loading, checkedAll, selectedUserNames,
                 selectedUser, refreshInterval, timers, fuse, hasFuse,
                 keyword, editingModal, passwordChangeModal,
                 grantPermissionModal, fetches, batchLeft, batchActive, srv,
                 solo>>

\* onConfirm of handleDeleteInBatch, up to its await: one removal request per
\* selected name but the current user's; Promise.all of no request is fulfilled
\* at once, and handleFetchUsers follows
ConfirmDeleteInBatch ==
  LET userNamesToDelete == UserNamesToDelete(selectedUserNames)
      targets == Range(userNamesToDelete)
  IN  /\ phase = "mounted"
      /\ dialog.kind = "batch"
      /\ ~batchActive
      /\ Cardinality(deletes) + Cardinality(targets) <= MaxDeletes
      /\ \A d \in deletes : d.kind # "batch"
      /\ dialog' = [kind |-> "none", user |-> NoUser]
      /\ batchActive' = TRUE
      /\ batchLeft' = targets
      /\ deletes' = deletes \cup {[name |-> n, kind |-> "batch"] : n \in targets}
      /\ IF targets = {}
         THEN StartFetch(FALSE, "batch", {}, users)
         ELSE NoFetch
      /\ ev' = Event("ConfirmDeleteInBatch", FALSE, {})
      /\ latest' = NoLatest
      /\ UNCHANGED <<phase, users, checkedAll, selectedUserNames,
                     selectedUser, fuse, hasFuse, keyword, editingModal,
                     passwordChangeModal, grantPermissionModal, srv>>

\* a removal request succeeds.  handleDelete: Toast.success, then finally
\* handleFetchUsers.  handleDeleteInBatch: Promise.all is fulfilled with the last
\* success, and handleFetchUsers follows.
DeleteOk(d) ==
  /\ d \in deletes
  /\ deletes' = deletes \ {d}
  /\ srv' = MarkDeleted(srv, d.name)
  /\ IF d.kind = "one"
     THEN /\ StartFetch(FALSE, "none",
                        {d.name} \cap Range(selectedUserNames), users)
          /\ UNCHANGED batchLeft
     ELSE IF d.kind = "batch"
     THEN /\ batchLeft' = batchLeft \ {d.name}
          /\ IF AllFulfilled(batchLeft')
             THEN StartFetch(FALSE, "batch",
                             Range(UserNamesToDelete(selectedUserNames)), users)
             ELSE NoFetch
     ELSE UNCHANGED batchLeft /\ NoFetch
  /\ ev' = [Event("DeleteOk", FALSE, {})
              EXCEPT !.toast = IF d.kind = "one" THEN "success" ELSE "none"]
  /\ UNCHANGED <<phase, users, checkedAll, selectedUserNames, selectedUser,
                 fuse, hasFuse, keyword, editingModal, passwordChangeModal,
                 grantPermissionModal, dialog, batchActive, latest>>

\* what escapes onConfirm of handleDelete when the removal fails (it is caught),
\* and what escapes onConfirm of handleDeleteInBatch (Promise.all rejects, and
\* nothing catches it)
DeleteEscapes(kind) == IF kind = "batch" THEN {"handleDeleteInBatch"} ELSE {}

\* a removal request fails.  handleDelete: catch, then finally handleFetchUsers.
\* handleDeleteInBatch: Promise.all rejects with the first failure and the
\* handler ends there; the other requests go on, awaited by nobody.
DeleteFail(d) ==
  /\ d \in deletes
  /\ IF d.kind = "one"
     THEN /\ StartFetch(FALSE, "none", {}, users)
          /\ deletes' = deletes \ {d}
          /\ UNCHANGED <<batchLeft, batchActive>>
     ELSE IF d.kind = "batch"
     THEN /\ batchLeft' = {}
          /\ batchActive' = FALSE
          /\ deletes' = {[name |-> x.name,
                          kind |-> IF x.kind = "batch" THEN "settled" ELSE x.kind] :
                         x \in deletes \ {d}}
          /\ NoFetch
     ELSE /\ deletes' = deletes \ {d}
          /\ UNCHANGED <<batchLeft, batchActive>> /\ NoFetch
  /\ ev' = Event("DeleteFail", FALSE, DeleteEscapes(d.kind))
  /\ UNCHANGED <<phase, users, checkedAll, selectedUserNames, selectedUser,
                 fuse, hasFuse, keyword, editingModal, passwordChangeModal,
                 grantPermissionModal, dialog, srv, latest>>

\* ------------------------------------------------------------- the server
\* the server finishes a pending deletion: the user leaves the collection
ServerPurge(n) ==
  /\ srv[n] = "deleting"
  /\ srv' = [srv EXCEPT ![n] = "gone"]
  /\ ev' = Event("ServerPurge", FALSE, {})
  /\ UNCHANGED <<phase, users, loading, checkedAll, selectedUserNames,
                 selectedUser, refreshInterval, timers, fuse, hasFuse,
                 keyword, editingModal, passwordChangeModal,
                 grantPermissionModal, dialog, fetches, deletes, batchLeft,
                 batchActive, solo, latest>>

Next ==
  \/ \E a \in {"", "create"} : OnMounted(a)
  \/ OnUnmounted
  \/ \E h \in Handles : TimerTick(h)
  \/ \E f \in BagToSet(fetches) : FetchOk(f)
  \/ \E f \in BagToSet(fetches) : FetchFail(f)
  \/ \E p \in Pages, s \in SizeOptions : HandlePaginationChange(p, s)
  \/ \E n \in Names : ToggleRow(n)
  \/ \E c \in BOOLEAN : HandleCheckAllChange(c)
  \/ \E k \in Keywords : TypeKeyword(k)
  \/ \E w \in {"editing", "password", "grant"}, n \in Names \cup {NoUser} :
       OpenModal(w, n)
  \/ CloseModal
  \/ \E n \in Names : HandleDelete(n)
  \/ HandleDeleteInBatch
  \/ DialogCancel
  \/ ConfirmDelete
  \/ ConfirmDeleteInBatch
  \/ \E d \in deletes : DeleteOk(d)
  \/ \E d \in deletes : DeleteFail(d)
  \/ \E n \in Names : ServerPurge(n)

Spec == Init /\ [][Next]_vars

\* ------------------------------------------------------------- bulk delete scenario
\* the same view over a server that holds BulkUsers users, with the page size
\* (20 at the start) scaled to hold them all, and a user who selects rows and
\* bulk deletes: a bulk delete then dispatches more than one removal request
InitBulk ==
  /\ phase = "setup"
  /\ users = [EmptyPage EXCEPT !.size = BulkUsers]
  /\ loading = FALSE
  /\ checkedAll = FALSE
  /\ selectedUserNames = <<>>
  /\ selectedUser = NoUser
  /\ refreshInterval = NoHandle
  /\ timers = {}
  /\ fuse = <<>>
  /\ hasFuse = FALSE
  /\ keyword = ""
  /\ editingModal = FALSE
  /\ passwordChangeModal = FALSE
  /\ grantPermissionModal = FALSE
  /\ dialog = [kind |-> "none", user |-> NoUser]
  /\ fetches = EmptyBag
  /\ deletes = {}
  /\ batchLeft = {}
  /\ batchActive = FALSE
  /\ srv = [n \in Names |->
              IF n \in FirstNames(BulkUsers) THEN "live" ELSE "gone"]
  /\ solo = NoSolo
  /\ latest = NoLatest
  /\ ev = NoEvent

NextBulk ==
  \/ OnMounted("")
  \/ \E h \in Handles : TimerTick(h)
  \/ \E f \in BagToSet(fetches) : FetchOk(f)
  \/ \E f \in BagToSet(fetches) : FetchFail(f)
  \/ \E n \in Names : ToggleRow(n)
  \/ \E c \in BOOLEAN : HandleCheckAllChange(c)
  \/ HandleDeleteInBatch
  \/ DialogCancel
  \/ ConfirmDeleteInBatch
  \/ \E d \in deletes : DeleteOk(d)
  \/ \E d \in deletes : DeleteFail(d)
  \/ \E n \in Names : ServerPurge(n)

SpecBulk == InitBulk /\ [][NextBulk]_vars

\* ------------------------------------------------------------- properties
PendingDeletion(items) == Len(DeletedUsers(items)) > 0
FetchFinished == ev.op \in {"FetchOk", "FetchFail"}

\* C1: in every reachable state at most one interval timer of the deletion
\* poller is live, and a live one is the handle stored in refreshInterval.
C1_AtMostOneTimer ==
  /\ Cardinality(timers) <= 1
  /\ timers # {} => timers = {refreshInterval}

\* C2: once the last successful fetch has stored a Page without deletion
\* timestamps, no timer-triggered (muted) fetch is issued.
C2_NoPollAfterCleanPage ==
  ~(ev.op = "TimerTick" /\ hasFuse /\ ~PendingDeletion(users.items))

\* C3: after onUnmounted no poll timer is live and no list fetch is issued.
C3_NothingAfterTeardown ==
  phase = "unmounted" => (timers = {} /\ ev.op # "TimerTick")

\* C4: while the component is mounted and the stored Page holds an item with a
\* deletion timestamp, a list fetch is in flight or a poll timer is armed.
C4_PollingStaysAlive ==
  (phase = "mounted" /\ PendingDeletion(users.items))
    => (fetches # EmptyBag \/ timers # {})

\* C5: checkedAll is true exactly when as many names are selected as the stored
\* Page has items.  Stated for the states in which a fetch has stored a Page; in
\* the initial state checkedAll is false over an empty Page and an empty selection.
C5_CheckedAllIffAllSelected ==
  hasFuse => (checkedAll <=> (Len(selectedUserNames) = Len(users.items)))

\* C6: in every reachable state the selected names are names of items of the
\* stored Page.
C6_SelectionWithinPage ==
  Range(selectedUserNames) \subseteq Range(ItemNames(users.items))

\* C7: when the list request of a fetch fails, the stored Page is the Page that
\* was stored before the operation began.  Stated for a fetch that no other
\* fetch overlaps: nothing else has written items or total meanwhile, so the
\* Page is the one before exactly when page and size are.
C7_FailedFetchKeepsPage ==
  (ev.op = "FetchFail" /\ solo.on)
    => (users.page = solo.page /\ users.size = solo.size)

\* C8: when a fetch finishes, successfully or not, muted or not, the loading
\* indicator is down, no user is active and no error has escaped
\* handleFetchUsers; and no step of a muted fetch raises the loading indicator.
C8_GuaranteedCleanup ==
  /\ [](FetchFinished => (~loading /\ selectedUser = NoUser /\ ev.escaped = {}))
  /\ [][ev'.mute => (loading' => loading)]_vars

\* C8's case: a muted fetch has failed while a user was active
C8_Witness == ev.op = "FetchFail" /\ ev.mute /\ (editingModal \/ passwordChangeModal)

\* C9: on confirmation of a bulk delete the removal requests dispatched are
\* those of the selected names but the current user's, and no removal request
\* of a bulk delete ever names the current user.
C9_SelfDeletionGuard ==
  /\ \A d \in deletes : d.kind # "one" => d.name # CurrentUser
  /\ ev.op = "ConfirmDeleteInBatch"
       => {d.name : d \in deletes} = Range(selectedUserNames) \ {CurrentUser}

\* C9's case: the selection holds the current user and another user at confirmation
C9_Witness ==
  /\ ev.op = "ConfirmDeleteInBatch"
  /\ CurrentUser \in Range(selectedUserNames)
  /\ Len(selectedUserNames) > 1
  /\ deletes # {}

\* C10: no failure of a remote call escapes the handler that issued the call.
C10_NoErrorEscapes == ev.escaped = {}

\* a removal request of a single delete is in flight
SingleDeletePending == \E d \in deletes : d.kind = "one"

\* C11: confirming a single delete issues exactly one removal request, for the
\* user of the dialog, and no list request; dismissing the dialog issues
\* nothing, and no removal request of a single delete arises otherwise; when
\* the removal settles, exactly one list request is issued, success feedback is
\* shown exactly if it succeeded and failure feedback if it failed.
C11_SingleDelete ==
  [][ /\ ev'.op = "ConfirmDelete"
           => /\ deletes' =
                   deletes \cup {[name |-> dialog.user, kind |-> "one"]}
              /\ Cardinality(deletes') = Cardinality(deletes) + 1
              /\ fetches' = fetches
      /\ ev'.op = "DialogCancel" => (deletes' = deletes /\ fetches' = fetches)
      /\ ev'.op # "ConfirmDelete"
           => {d \in deletes' : d.kind = "one"} \subseteq deletes
      /\ (ev'.op \in {"DeleteOk", "DeleteFail"} /\ SingleDeletePending)
           => /\ BagCardinality(fetches') = BagCardinality(fetches) + 1
              /\ ev'.toast =
                   (IF ev'.op = "DeleteOk" THEN "success" ELSE "failure")
    ]_vars

\* C12: when the fetch that follows a successful removal of users who were
\* selected (and are not the current user) has finished, none of them is
\* selected.
C12_DeletedLeavesSelection ==
  FetchFinished => (ev.del \cap Range(selectedUserNames) = {})

\* C13: handleCheckAllChange makes the selection the names of the stored Page's
\* items, in page order, when the header checkbox becomes ticked, and empty
\* when it becomes unticked; it issues no request and changes neither the Page
\* nor the active user.
C13_ToggleAll ==
  [][ev'.op = "HandleCheckAllChange"
       => /\ selectedUserNames' =
               (IF ~checkedAll THEN ItemNames(users.items) ELSE <<>>)
          /\ UNCHANGED <<users, selectedUser, fetches, deletes>>
    ]_vars

\* C13's case: the header checkbox was ticked over a Page of several items
C13_Witness ==
  /\ ev.op = "HandleCheckAllChange"
  /\ Len(users.items) > 1
  /\ selectedUserNames = ItemNames(users.items)

\* C14: a pagination change issues exactly one list request, an unmuted one
\* that carries the page and size of the event, whatever else is in flight.
C14_OneRequestPerPaginationChange ==
  [][ev'.op = "HandlePaginationChange"
       => \E f \in BagToSet(fetches') :
            /\ fetches' = fetches (+) SetToBag({f})
            /\ f.page = ev'.page /\ f.size = ev'.size /\ ~f.mute
    ]_vars

\* C14's case: the page was changed while a poll for another page was in flight
C14_Witness ==
  /\ ev.op = "HandlePaginationChange"
  /\ BagCardinality(fetches) = 2
  /\ \E f \in BagToSet(fetches) : f.mute /\ f.page # ev.page

\* C15: with an empty keyword, or before an index has been built, searchResults
\* is the item sequence of the stored Page; and typing a keyword issues no
\* request and changes neither the Page, the selection nor the timer.
C15_SearchUnfiltered ==
  /\ [](\A k \in Keywords :
          (~hasFuse \/ k = "")
            => SearchResults(hasFuse, fuse, k, users.items) = users.items)
  /\ [][ev'.op = "TypeKeyword"
          => UNCHANGED <<users, selectedUserNames, selectedUser, timers,
                         refreshInterval, fetches, deletes>>
       ]_vars

\* C15's case: the keyword was cleared over an indexed Page of several items
C15_Witness ==
  /\ ev.op = "TypeKeyword"
  /\ keyword = ""
  /\ hasFuse
  /\ Len(users.items) > 1

\* C16: in every reachable state the stored Page holds no more items than its
\* size (the server's responses do so by ListUsers).
C16_ItemsWithinSize == Len(users.items) <= users.size

\* the confirm handler of a bulk delete calls handleFetchUsers in this step
BatchFetchIssued ==
  \E f \in BagToSet(fetches') :
    f.after = "batch" /\ CopiesIn(f, fetches') > CopiesIn(f, fetches)

\* C17: the bulk delete issues its list request only once every removal request
\* it dispatched has succeeded; until that fetch has finished the selection is
\* as it was and no success is reported, and then the selection is emptied and
\* success reported; when a removal fails the handler ends there: the failure
\* escapes it, it issues no list request, reports no success and leaves the
\* selection as it was.
C17_BulkDeleteOrdering ==
  [][ /\ BatchFetchIssued
           => /\ batchActive'
              /\ \A d \in deletes' : d.kind # "batch"
              /\ \A n \in Range(UserNamesToDelete(selectedUserNames)) :
                   srv'[n] # "live"
      /\ (batchActive /\ ~(FetchFinished' /\ ev'.toast = "success"))
           => (selectedUserNames' = selectedUserNames /\ ev'.toast = "none")
      /\ (batchActive /\ ev'.toast = "success")
           => (selectedUserNames' = <<>> /\ ~batchActive' /\ ~BatchFetchIssued)
      /\ (batchActive /\ ev'.op = "DeleteFail")
           => /\ ev'.escaped = {"handleDeleteInBatch"}
              /\ fetches' = fetches
              /\ ~batchActive'
      /\ ~batchActive' => ~BatchFetchIssued
    ]_vars

\* C17's case: of the removals of a bulk delete one has succeeded and another
\* has failed
C17_Witness ==
  /\ ev.op = "DeleteFail"
  /\ ev.escaped = {"handleDeleteInBatch"}
  /\ \E n \in Range(selectedUserNames) : srv[n] = "deleting"
  /\ \E n \in Range(selectedUserNames) : n # CurrentUser /\ srv[n] = "live"

C19_ActiveEntityStays ==
  (passwordChangeModal \/ grantPermissionModal) => selectedUser # NoUser

\* C20: once no fetch is in flight, every fetch since the latest pagination
\* change has succeeded and no user event has followed it, the stored Page has
\* the page and size of that change.
C20_LatestPaginationWins ==
  (latest.on /\ fetches = EmptyBag)
    => (users.page = latest.page /\ users.size = latest.size)

====
